---- MODULE Spec2Model ----
(***************************************************************************)
(* A model of gmanny/qr-song-card-gen.                                     *)
(*                                                                         *)
(*   Spec      one run of make_qr_cards.main: file checks, fuzzy index,    *)
(*             selection loop, sort/shuffle, pagination, page rendering.   *)
(*   SpecFit   line_break_text applied to strings of single-spaced words.  *)
(*   SpecClean clean_string applied twice to a string and a pattern list.  *)
(*                                                                         *)
(* Python values are modelled as follows.  A str is a TLA+ string where    *)
(* only equality and collation matter (ids, set names, titles) and a       *)
(* sequence of one-character strings where the code looks inside it        *)
(* (line_break_text, clean_string).  An Optional value is <<>> for None    *)
(* and <<v>> otherwise; an Optional str is the string None or the str.     *)
(* A dict is a function; a key the dict lacks is not in its DOMAIN.        *)
(***************************************************************************)
EXTENDS Integers, Sequences, FiniteSets, TLC

(***************************************************************************)
(* Bounds of the model.                                                    *)
(***************************************************************************)
\* longest track list whose lines are drawn freely from LineKinds
MaxLines == 3
\* longest track list of the long, regular family (crosses 2 * 12 cards)
MaxCards == 25
\* most words in a string handed to line_break_text
MaxWords == 4
\* longest string over CleanAlphabet handed to clean_string
MaxStrLen == 4
\* longest pattern list drawn from PatternPool
MaxPatterns == 2
\* most fragments appended to a title handed to clean_string
MaxFragments == 3

None == "None"

Max(a, b) == IF a >= b THEN a ELSE b
Min(a, b) == IF a <= b THEN a ELSE b

(***************************************************************************)
(* Generic sequence helpers.                                               *)
(***************************************************************************)
RECURSIVE SeqSum(_)
SeqSum(s) == IF s = <<>> THEN 0 ELSE Head(s) + SeqSum(Tail(s))

RECURSIVE Flatten(_)
Flatten(ss) == IF ss = <<>> THEN <<>> ELSE Head(ss) \o Flatten(Tail(ss))

Get(d, key, default) == IF key \in DOMAIN d THEN d[key] ELSE default

(***************************************************************************)
(* The metadata store (tracks.json).  A record written by                  *)
(* fetch_track_metadata has no "set" key (clean_track_data deletes it);    *)
(* a store from the older single-set format still has one.  Overrides are  *)
(* optional keys added by hand.                                            *)
(***************************************************************************)
BaseTracks ==
    [t \in {"t1", "t2", "t4"} |->
        CASE t = "t1" -> [release_date |-> <<1990, 1, 1>>, title |-> "X - Mono",
                          title_clean |-> "X", artist |-> "P", album |-> "L",
                          album_clean |-> "L", album_track |-> 1,
                          track_url |-> "u1", album_url |-> "a1",
                          artist_url |-> "r1", sets |-> ("A" :> 1)]
          [] t = "t2" -> [release_date |-> <<1980, 6, 1>>, title |-> "Y",
                          title_clean |-> "Y", title_override |-> "X",
                          artist |-> "P", album |-> "M",
                          album_clean |-> "M", album_track |-> 2,
                          track_url |-> "u2", album_url |-> "a2",
                          artist_url |-> "r2", sets |-> ("B" :> 1)]
          [] t = "t4" -> [release_date |-> <<1970, 3, 1>>, title |-> "Z",
                          title_clean |-> "Z", artist |-> "Q", album |-> "L",
                          album_clean |-> "L", album_track |-> 3,
                          track_url |-> "u4", album_url |-> "a4",
                          artist_url |-> "r4", sets |-> ("B" :> 2)]]

\* the store as fetch_track_metadata writes it
FetchedTracks == BaseTracks

\* the same store in the older format, each record carrying its "set" key
LegacyTracks ==
    [t \in DOMAIN BaseTracks |->
        BaseTracks[t] @@ ("set" :> (CHOOSE s \in DOMAIN BaseTracks[t].sets : TRUE))]

Stores == {FetchedTracks, LegacyTracks}

(***************************************************************************)
(* Track lists.  A line is the token list line.split(";") of the stripped  *)
(* line; <<"">> is a blank line and <<"#">> a comment line.                *)
(***************************************************************************)
LineKinds ==
    { <<"">>, <<"#">>, <<"t1">>, <<"t2", "B", "7">>, <<"t4", "B">>, <<"t9", "A">> }

ShortLists == UNION {[1..n -> LineKinds] : n \in 0..MaxLines}

LongList(n) == [i \in 1..n |-> IF i % 2 = 1 THEN <<"t1", "A">> ELSE <<"t4", "B">>]

IsBlankOrComment(track_id_def) == track_id_def[1] = "" \/ track_id_def[1] = "#"

Digits == <<"0", "1", "2", "3", "4", "5", "6", "7", "8", "9">>

\* int(token) for a one-digit token
ParseInt(token) == (CHOOSE k \in DOMAIN Digits : Digits[k] = token) - 1

(***************************************************************************)
(* Command lines of make_qr_cards.                                         *)
(***************************************************************************)
ShortArgs ==
    [offset_count : {<<>>, <<1>>},
     limit_count : {<<>>, <<0>>, <<1>>},
     set_name : {None, "B"},
     set_alias : {None},
     skip_if_set : {{}, {"A"}},
     fuzzy_track_dupes : BOOLEAN,
     shuffle_cards : BOOLEAN]

LongArgs ==
    [offset_count : {<<>>, <<3>>},
     limit_count : {<<>>, <<4>>},
     set_name : {None},
     set_alias : {None, "S"},
     skip_if_set : {{}, {"A"}},
     fuzzy_track_dupes : {FALSE},
     shuffle_cards : BOOLEAN]

VARIABLES
    pc,                  \* position in main
    args,                \* parsed command line
    list_file,           \* [exists, lines]
    track_db_file,       \* [exists, tracks]
    track_metadata,      \* the loaded store
    track_ids,           \* the lines of the list file
    exclude_track_data,  \* (title, artist) -> conflicting set ids
    idx,                 \* number of lines the selection loop has consumed
    count,               \* surviving candidates seen
    processed_count,     \* accepted cards
    tracks,              \* accepted cards
    table,               \* the open Table's cells
    tables,              \* closed Tables
    year_counts,
    decade_counts,
    next_track,          \* position of the pagination loop in tracks
    files,               \* page files written to build/
    stdout,              \* printed messages
    exit_code,
    fit_s,               \* the string handed to render_text_svg
    fit_lines,           \* the text lines it yields, <<>> before the call
    clean_s,             \* the string handed to clean_string
    clean_patterns,      \* patterns_to_remove
    clean_passes,        \* the results of the passes made so far
    track_db,            \* fetch: the store in memory, track_db["tracks"]
    already_reloaded,    \* fetch: the set main declares before its loop
    call,                \* fetch: the arguments of the open fetch_track_metadata call
    backoff,             \* fetch_track_metadata: failures of the open call so far
    sleep_time,          \* fetch_track_metadata: the last backoff delay of the open call
    db_before            \* fetch: the store file as it was when the run began

mainVars == <<pc, args, list_file, track_db_file, track_metadata, track_ids,
              exclude_track_data, idx, count, processed_count, tracks, table,
              tables, year_counts, decade_counts, next_track, files, stdout,
              exit_code>>

fitVars == <<fit_s, fit_lines>>

cleanVars == <<clean_s, clean_patterns, clean_passes>>

fetchVars == <<track_db, already_reloaded, call, backoff, sleep_time, db_before>>

vars == <<mainVars, fitVars, cleanVars, fetchVars>>


(***************************************************************************)
(* Track: the card tuple, and its ordering (tuple comparison, field by     *)
(* field, strings by code point).                                          *)
(***************************************************************************)
Collation ==
    <<"", "A", "B", "L", "M", "P", "Q", "S", "X", "Y", "Z",
      "a1", "a2", "a4", "r1", "r2", "r4", "u1", "u2", "u4">>

StrRank(s) == CHOOSE k \in DOMAIN Collation : Collation[k] = s

TrackKey(t) ==
    t.release_date \o
    <<StrRank(t.title), StrRank(t.artist), StrRank(t.album), t.album_track,
      StrRank(t.track_url), StrRank(t.album_url), StrRank(t.artist_url),
      StrRank(t.set), t.set_index>>

RECURSIVE LexLess(_, _)
LexLess(a, b) ==
    IF a = <<>> \/ b = <<>> THEN a = <<>> /\ b # <<>>
    ELSE IF Head(a) # Head(b) THEN Head(a) < Head(b)
    ELSE LexLess(Tail(a), Tail(b))

TrackLess(t, u) == LexLess(TrackKey(t), TrackKey(u))

release_year(t) == t.release_date[1]

\* list.sort(): a stable ascending sort of the Track tuples
RECURSIVE InsertSorted(_, _)
InsertSorted(s, t) ==
    IF s = <<>> THEN <<t>>
    ELSE IF TrackLess(t, Head(s)) THEN <<t>> \o s
    ELSE <<Head(s)>> \o InsertSorted(Tail(s), t)

RECURSIVE SortTracks(_)
SortTracks(s) ==
    IF s = <<>> THEN <<>>
    ELSE InsertSorted(SortTracks(SubSeq(s, 1, Len(s) - 1)), s[Len(s)])

\* lists no longer than this are shuffled into every permutation
MaxShuffle == 3

\* random.shuffle: the orders the shuffled list may end in (every permutation;
\* for lists longer than MaxShuffle a rotation and the reversal stand for them)
Shuffles(s) ==
    LET n == Len(s) IN
    IF n <= MaxShuffle
    THEN {[i \in 1..n |-> s[p[i]]] :
            p \in {q \in [1..n -> 1..n] : \A i, j \in 1..n : q[i] = q[j] => i = j}}
    ELSE {[i \in 1..n |-> s[(i % n) + 1]], [i \in 1..n |-> s[n + 1 - i]]}

(***************************************************************************)
(* Table: the cells of one sheet.                                          *)
(***************************************************************************)
width == 3
height == 4

Table_new == <<>>

Table_append(cells, track) == Append(cells, track)

Table_is_empty(cells) == Len(cells) = 0

\* Table_is_full with the comparison off by one: a table closes one card late
Table_is_full_late(cells) == Len(cells) > width * height

Table_is_full(cells) == Len(cells) >= width * height

\* QrColumn without the mirroring
QrColumn_unmirrored(i) == i % width

\* grid column of cell i (0-based) on the code side
QrColumn(i) == width - 1 - (i % width)

\* grid column of cell i (0-based) on the title side
TitleColumn(i) == i % width

\* grid row of cell i (0-based), either side
CellRow(i) == i \div width

\* Table.render_svg: the cells placed on the page, with the footer
Table_render_svg(cells, mode, page_footer) ==
    [mode |-> mode,
     footer |-> page_footer,
     cells |-> [k \in 1..Len(cells) |->
                  [ix |-> IF mode = "qr" THEN QrColumn(k - 1) ELSE TitleColumn(k - 1),
                   iy |-> CellRow(k - 1),
                   track |-> cells[k]]]]

\* collections.Counter: c[k] += 1
CounterInc(c, k) ==
    IF k \in DOMAIN c THEN [c EXCEPT ![k] = @ + 1] ELSE c @@ (k :> 1)


(***************************************************************************)
(* make_qr_cards.main                                                      *)
(***************************************************************************)
Message(msg, track_id, sets) == [msg |-> msg, track_id |-> track_id, sets |-> sets]

\* args.offset_count or 0
OffsetCount(a) == IF a.offset_count = <<>> THEN 0 ELSE a.offset_count[1]

\* display title and artist of a store record: the override if present
DisplayTitle(rec) == Get(rec, "title_override", rec.title_clean)

DisplayArtist(rec) == Get(rec, "artist_override", rec.artist)

DisplayAlbum(rec) == Get(rec, "album_override", rec.album_clean)

\* the fuzzy index walks every record and reads its "set" key
IndexKeyError(md) == \E t \in DOMAIN md : "set" \notin DOMAIN md[t]

\* the records the fuzzy index takes in
IndexedTracks(md, skip_if_set) == {t \in DOMAIN md : md[t]["set"] \in skip_if_set}

\* exclude_track_data as the index loop leaves it
BuildExcludeTrackData(md, skip_if_set) ==
    LET used == IndexedTracks(md, skip_if_set)
        pair(t) == <<DisplayTitle(md[t]), DisplayArtist(md[t])>>
    IN  [p \in {pair(t) : t \in used} |->
            UNION {skip_if_set \cap DOMAIN md[t].sets : t \in {u \in used : pair(u) = p}}]

\* OtherSets with the membership test inverted
OtherSets_inverted(rec, skip_if_set) ==
    {set_id \in DOMAIN rec.sets : set_id \notin skip_if_set}

\* the exact check: the record's own sets that are excluded
OtherSets(rec, skip_if_set) == {set_id \in DOMAIN rec.sets : set_id \in skip_if_set}

\* set_alias or track_set or ""
SetLabel(set_alias, track_set) ==
    IF set_alias # None /\ set_alias # "" THEN set_alias
    ELSE IF track_set # None /\ track_set # "" THEN track_set
    ELSE ""

MakeTrack(rec, set_alias, track_set, track_index) ==
    [release_date |-> rec.release_date,
     title |-> DisplayTitle(rec),
     artist |-> DisplayArtist(rec),
     album |-> DisplayAlbum(rec),
     album_track |-> rec.album_track,
     track_url |-> rec.track_url,
     album_url |-> rec.album_url,
     artist_url |-> rec.artist_url,
     set |-> SetLabel(set_alias, track_set),
     set_index |-> track_index]

\* SetFilterSkips with the filter never applied: every line is looked up
SetFilterSkips_never(set_name, track_set) == FALSE

\* set_name is not None and track_set != set_name: the line is passed over
SetFilterSkips(set_name, track_set) == set_name # None /\ track_set # set_name

\* InOffset with a strict comparison: one candidate too few is discarded
InOffset_strict(offset_count, cnt) == offset_count > cnt

\* offset_count >= count: the candidate is inside the discarded prefix
InOffset(offset_count, cnt) == offset_count >= cnt

\* limit_count is not None and processed_count >= limit_count
LimitReached(limit_count, processed) ==
    limit_count # <<>> /\ processed >= limit_count[1]

FitIdle == fit_s = <<>> /\ fit_lines = <<>>

CleanIdle == clean_s = <<>> /\ clean_patterns = <<>> /\ clean_passes = <<>>

\* fetch_track_metadata.py is not running
FetchIdle ==
    /\ track_db = <<>>
    /\ already_reloaded = {}
    /\ call = <<>>
    /\ backoff = 0
    /\ sleep_time = 0
    /\ db_before = <<>>

InitWith(a, lines, tracks_in_db, list_ok, db_ok) ==
    /\ FitIdle
    /\ CleanIdle
    /\ FetchIdle
    /\ args = a
    /\ list_file = [exists |-> list_ok, lines |-> lines]
    /\ track_db_file = [exists |-> db_ok, tracks |-> tracks_in_db]
    /\ pc = "start"
    /\ track_metadata = <<>>
    /\ track_ids = <<>>
    /\ exclude_track_data = <<>>
    /\ idx = 0
    /\ count = 0
    /\ processed_count = 0
    /\ tracks = <<>>
    /\ table = Table_new
    /\ tables = <<>>
    /\ year_counts = <<>>
    /\ decade_counts = <<>>
    /\ next_track = 0
    /\ files = <<>>
    /\ stdout = <<>>
    /\ exit_code = 0

\* main is not running (the specifications of the two pure functions)
MainIdle ==
    /\ args = [offset_count |-> <<>>, limit_count |-> <<>>, set_name |-> None,
               set_alias |-> None, skip_if_set |-> {}, fuzzy_track_dupes |-> FALSE,
               shuffle_cards |-> FALSE]
    /\ list_file = [exists |-> FALSE, lines |-> <<>>]
    /\ track_db_file = [exists |-> FALSE, tracks |-> <<>>]
    /\ pc = "idle"
    /\ track_metadata = <<>>
    /\ track_ids = <<>>
    /\ exclude_track_data = <<>>
    /\ idx = 0
    /\ count = 0
    /\ processed_count = 0
    /\ tracks = <<>>
    /\ table = <<>>
    /\ tables = <<>>
    /\ year_counts = <<>>
    /\ decade_counts = <<>>
    /\ next_track = 0
    /\ files = <<>>
    /\ stdout = <<>>
    /\ exit_code = 0

\* the older store format is drawn where its "set" keys are read
StoresFor(a) ==
    IF a.fuzzy_track_dupes /\ a.skip_if_set # {} THEN Stores ELSE {FetchedTracks}

\* the command line is parsed; nothing is read yet
Init ==
    \/ \E a \in ShortArgs, l \in ShortLists :
         \E st \in StoresFor(a) : InitWith(a, l, st, TRUE, TRUE)
    \/ \E a \in LongArgs, n \in (MaxLines + 1)..MaxCards :
         InitWith(a, LongList(n), FetchedTracks, TRUE, TRUE)
    \/ \E list_ok, db_ok \in BOOLEAN :
         /\ ~(list_ok /\ db_ok)
         /\ InitWith([offset_count |-> <<>>, limit_count |-> <<>>, set_name |-> None,
                      set_alias |-> None, skip_if_set |-> {},
                      fuzzy_track_dupes |-> FALSE, shuffle_cards |-> FALSE],
                     LongList(2), FetchedTracks, list_ok, db_ok)

\* lines 364-398: the file checks, the empty table and lists, the loads
Start ==
    /\ pc = "start"
    /\ IF ~list_file.exists \/ ~track_db_file.exists
       THEN /\ stdout' = Append(stdout, Message("no_file", None, {}))
            /\ exit_code' = 1
            /\ pc' = "exit"
            /\ UNCHANGED <<track_metadata, track_ids>>
       ELSE /\ track_metadata' = track_db_file.tracks
            /\ track_ids' = list_file.lines
            /\ pc' = "index"
            /\ UNCHANGED <<stdout, exit_code>>
    /\ table' = Table_new
    /\ tables' = <<>>
    /\ tracks' = <<>>
    /\ year_counts' = <<>>
    /\ decade_counts' = <<>>
    /\ UNCHANGED <<args, list_file, track_db_file, exclude_track_data, idx, count,
                   processed_count, next_track, files>>
    /\ UNCHANGED <<fitVars, cleanVars, fetchVars>>

\* lines 400-415: the fuzzy index, then the loop counters
BuildIndex ==
    /\ pc = "index"
    /\ IF args.fuzzy_track_dupes /\ Cardinality(args.skip_if_set) > 0
       THEN IF IndexKeyError(track_metadata)
            THEN /\ pc' = "crash"
                 /\ exit_code' = 1
                 /\ stdout' = Append(stdout, Message("KeyError", None, {}))
                 /\ UNCHANGED exclude_track_data
            ELSE /\ exclude_track_data' =
                        BuildExcludeTrackData(track_metadata, args.skip_if_set)
                 /\ pc' = "select"
                 /\ UNCHANGED <<exit_code, stdout>>
       ELSE /\ exclude_track_data' = <<>>
            /\ pc' = "select"
            /\ UNCHANGED <<exit_code, stdout>>
    /\ count' = 0
    /\ processed_count' = 0
    /\ idx' = 0
    /\ UNCHANGED <<args, list_file, track_db_file, track_metadata, track_ids, tracks,
                   table, tables, year_counts, decade_counts, next_track, files>>
    /\ UNCHANGED <<fitVars, cleanVars, fetchVars>>

\* lines 416-479: one iteration of the selection loop
SelectLine ==
    /\ pc = "select"
    /\ idx < Len(track_ids)
    /\ LET track_id_def == track_ids[idx + 1]
           tokens == track_id_def
           track_id == tokens[1]
           track_set == IF Len(tokens) > 1 THEN tokens[2] ELSE None
           track_index == IF Len(tokens) > 2 THEN ParseInt(tokens[3]) ELSE idx
       IN
       /\ idx' = idx + 1
       /\ IF IsBlankOrComment(track_id_def)
          THEN UNCHANGED <<pc, exit_code, stdout, count, processed_count, tracks>>
          ELSE IF SetFilterSkips(args.set_name, track_set)
          THEN UNCHANGED <<pc, exit_code, stdout, count, processed_count, tracks>>
          ELSE IF track_id \notin DOMAIN track_metadata
          THEN /\ stdout' = Append(stdout, Message("not_found", track_id, {}))
               /\ exit_code' = 2
               /\ pc' = "exit"
               /\ UNCHANGED <<count, processed_count, tracks>>
          ELSE
          LET existing_track_data == track_metadata[track_id]
              other_sets == OtherSets(existing_track_data, args.skip_if_set)
              track == MakeTrack(existing_track_data, args.set_alias, track_set,
                                 track_index)
              key == <<track.title, track.artist>>
          IN
          IF Cardinality(args.skip_if_set) > 0 /\ other_sets # {}
          THEN /\ stdout' = Append(stdout, Message("skip_exact", track_id, other_sets))
               /\ UNCHANGED <<pc, exit_code, count, processed_count, tracks>>
          ELSE IF key \in DOMAIN exclude_track_data
          THEN /\ stdout' = Append(stdout, Message("skip_fuzzy", track_id,
                                                   exclude_track_data[key]))
               /\ UNCHANGED <<pc, exit_code, count, processed_count, tracks>>
          ELSE
          /\ count' = count + 1
          /\ IF InOffset(OffsetCount(args), count + 1)
             THEN UNCHANGED <<pc, exit_code, stdout, processed_count, tracks>>
             ELSE /\ tracks' = Append(tracks, track)
                  /\ processed_count' = processed_count + 1
                  /\ pc' = IF LimitReached(args.limit_count, processed_count + 1)
                           THEN "sort" ELSE "select"
                  /\ UNCHANGED <<exit_code, stdout>>
    /\ UNCHANGED <<args, list_file, track_db_file, track_metadata, track_ids,
                   exclude_track_data, table, tables, year_counts, decade_counts,
                   next_track, files>>
    /\ UNCHANGED <<fitVars, cleanVars, fetchVars>>

\* lines 481-484, entered when the loop breaks or runs out of lines
SortOrShuffle ==
    /\ pc = "sort" \/ (pc = "select" /\ idx = Len(track_ids))
    /\ IF args.shuffle_cards
       THEN tracks' \in Shuffles(tracks)
       ELSE tracks' = SortTracks(tracks)
    /\ next_track' = 0
    /\ pc' = "paginate"
    /\ UNCHANGED <<args, list_file, track_db_file, track_metadata, track_ids,
                   exclude_track_data, idx, count, processed_count, table, tables,
                   year_counts, decade_counts, files, stdout, exit_code>>
    /\ UNCHANGED <<fitVars, cleanVars, fetchVars>>

\* lines 485-492: one iteration of the pagination loop
Paginate ==
    /\ pc = "paginate"
    /\ next_track < Len(tracks)
    /\ LET track == tracks[next_track + 1]
           appended == Table_append(table, track)
       IN
       /\ year_counts' = CounterInc(year_counts, release_year(track))
       /\ decade_counts' = CounterInc(decade_counts, 10 * (release_year(track) \div 10))
       /\ IF Table_is_full(appended)
          THEN /\ tables' = Append(tables, appended)
               /\ table' = Table_new
          ELSE /\ table' = appended
               /\ UNCHANGED tables
    /\ next_track' = next_track + 1
    /\ UNCHANGED <<pc, args, list_file, track_db_file, track_metadata, track_ids,
                   exclude_track_data, idx, count, processed_count, tracks, files,
                   stdout, exit_code>>
    /\ UNCHANGED <<fitVars, cleanVars, fetchVars>>

\* lines 494-512: the final table, the statistics, the build directory
FinalTable ==
    /\ pc = "paginate"
    /\ next_track = Len(tracks)
    /\ tables' = IF ~Table_is_empty(table) THEN Append(tables, table) ELSE tables
    /\ stdout' = Append(stdout, Message("statistics", None, {}))
    /\ pc' = "render"
    /\ UNCHANGED <<args, list_file, track_db_file, track_metadata, track_ids,
                   exclude_track_data, idx, count, processed_count, tracks, table,
                   year_counts, decade_counts, next_track, files, exit_code>>
    /\ UNCHANGED <<fitVars, cleanVars, fetchVars>>

PageName(p, side) == <<p, side>>

\* lines 516-523: the two pages of one table
RenderTable ==
    /\ pc = "render"
    /\ Len(files) < 2 * Len(tables)
    /\ LET i == Len(files) \div 2
           p == i + 1
           cells == tables[i + 1]
       IN files' = files \o
            << [name |-> PageName(p, "a"),
                content |-> Table_render_svg(cells, "title", PageName(p, "a"))],
               [name |-> PageName(p, "b"),
                content |-> Table_render_svg(cells, "qr", PageName(p, "b"))] >>
    /\ UNCHANGED <<pc, args, list_file, track_db_file, track_metadata, track_ids,
                   exclude_track_data, idx, count, processed_count, tracks, table,
                   tables, year_counts, decade_counts, next_track, stdout, exit_code>>
    /\ UNCHANGED <<fitVars, cleanVars, fetchVars>>

\* lines 525-528: every page is written; the pages go to the pdf converter
Finish ==
    /\ pc = "render"
    /\ Len(files) = 2 * Len(tables)
    /\ pc' = "done"
    /\ UNCHANGED <<args, list_file, track_db_file, track_metadata, track_ids,
                   exclude_track_data, idx, count, processed_count, tracks, table,
                   tables, year_counts, decade_counts, next_track, files, stdout,
                   exit_code>>
    /\ UNCHANGED <<fitVars, cleanVars, fetchVars>>

Next ==
    \/ Start
    \/ BuildIndex
    \/ SelectLine
    \/ SortOrShuffle
    \/ Paginate
    \/ FinalTable
    \/ RenderTable
    \/ Finish

Spec == Init /\ [][Next]_vars


(***************************************************************************)
(* Properties of make_qr_cards.main.  The expected values are written out  *)
(* from the inputs, not taken from the operators of the run.               *)
(***************************************************************************)
LineSet(line) == IF Len(line) > 1 THEN line[2] ELSE None

\* a line that is neither blank nor a comment and passes the --set filter
IsCandidateLine(line) ==
    /\ line[1] # ""
    /\ line[1] # "#"
    /\ (args.set_name = None \/ LineSet(line) = args.set_name)

\* the excluded sets the line's own record belongs to
ExcludedSetsOf(line) == DOMAIN track_metadata[line[1]].sets \cap args.skip_if_set

PairOf(rec) ==
    <<IF "title_override" \in DOMAIN rec THEN rec.title_override ELSE rec.title_clean,
      IF "artist_override" \in DOMAIN rec THEN rec.artist_override ELSE rec.artist>>

\* a candidate that passes both deduplication checks
IsSurvivorLine(line) ==
    /\ IsCandidateLine(line)
    /\ ExcludedSetsOf(line) = {}
    /\ PairOf(track_metadata[line[1]]) \notin DOMAIN exclude_track_data

\* positions (1-based) of the surviving candidates among the first n lines
SurvivorPositions(n) ==
    SelectSeq([i \in 1..n |-> i], LAMBDA i : IsSurvivorLine(track_ids[i]))

\* the card the line at position i (1-based) resolves to
CardOfLine(i) ==
    LET line == track_ids[i]
        rec == track_metadata[line[1]]
    IN  [release_date |-> rec.release_date,
         title |-> PairOf(rec)[1],
         artist |-> PairOf(rec)[2],
         album |-> IF "album_override" \in DOMAIN rec THEN rec.album_override
                   ELSE rec.album_clean,
         album_track |-> rec.album_track,
         track_url |-> rec.track_url,
         album_url |-> rec.album_url,
         artist_url |-> rec.artist_url,
         set |-> IF args.set_alias # None THEN args.set_alias
                 ELSE IF LineSet(line) # None THEN LineSet(line) ELSE "",
         set_index |-> IF Len(line) > 2 THEN ParseInt(line[3]) ELSE i - 1]

\* every candidate line of the list names a record of the store
AllCandidatesInStore ==
    \A i \in DOMAIN track_ids :
        IsCandidateLine(track_ids[i]) => track_ids[i][1] \in DOMAIN track_metadata

\* the selection loop has ended, by break or by running out of lines
SelectionEnded == pc = "sort" \/ (pc = "select" /\ idx = Len(track_ids))

Offset == IF args.offset_count = <<>> THEN 0 ELSE args.offset_count[1]

\* C1: once pagination has ended there are ceil(n/12) tables for the n cards
\* (none for n = 0), every table but the last holds exactly 12 cards, no table is
\* empty or holds more than 12, and the tables' cells concatenated are the card
\* sequence in the same order.
C1_PaginationPreservesCards ==
    pc \in {"render", "done"} =>
        LET n == Len(tracks)
            c == 3 * 4
        IN  /\ Len(tables) = (n + c - 1) \div c
            /\ \A t \in 1..Len(tables) :
                  /\ Len(tables[t]) >= 1
                  /\ Len(tables[t]) <= c
                  /\ (t < Len(tables) => Len(tables[t]) = c)
            /\ Flatten(tables) = tracks

\* three tables, the last one not full
C1_Witness ==
    /\ pc = "done"
    /\ Len(tracks) = 25
    /\ Len(tables) = 3
    /\ Len(tables[3]) = 1

\* C2: on the two pages of every table, cell i of the title page is in column
\* i mod 3 and cell i of the code page in column 3 - 1 - (i mod 3), both in row
\* i div 3, both pages show the same card there, and the columns lie in 0..2.
C2_MirrorInvariant ==
    \A j \in 1..(Len(files) \div 2) :
        LET front == files[2 * j - 1].content
            back == files[2 * j].content
        IN  /\ front.mode = "title"
            /\ back.mode = "qr"
            /\ Len(front.cells) = Len(tables[j])
            /\ Len(back.cells) = Len(tables[j])
            /\ \A k \in 1..Len(tables[j]) :
                  /\ front.cells[k].ix = (k - 1) % 3
                  /\ back.cells[k].ix = 3 - 1 - ((k - 1) % 3)
                  /\ front.cells[k].iy = (k - 1) \div 3
                  /\ back.cells[k].iy = (k - 1) \div 3
                  /\ front.cells[k].ix \in 0..2
                  /\ back.cells[k].ix \in 0..2
                  /\ front.cells[k].track = tables[j][k]
                  /\ back.cells[k].track = tables[j][k]

\* both pages of a full table and of a partly filled table are written
C2_Witness ==
    /\ pc = "done"
    /\ Len(files) = 4
    /\ Len(files[2].content.cells) = 12
    /\ Len(files[4].content.cells) = 5

\* C3: throughout the selection loop the survivors seen so far are counted, the
\* first offset_count of them are discarded and the accepted cards are the later
\* survivors in input order; lines dropped by the set filter or by deduplication
\* count for nothing.  With 10 survivors, offset 3 and limit 4 the loop ends with
\* survivors 4, 5, 6, 7.
C3_RunningOffset ==
    pc \in {"select", "sort"} =>
        LET pos == SurvivorPositions(idx)
        IN  /\ count = Len(pos)
            /\ Len(tracks) = Max(0, Len(pos) - Offset)
            /\ \A k \in 1..Len(tracks) : tracks[k] = CardOfLine(pos[Offset + k])
            /\ (/\ SelectionEnded
                /\ Offset = 3
                /\ args.limit_count = <<4>>
                /\ AllCandidatesInStore
                /\ Len(SurvivorPositions(Len(track_ids))) = 10)
               => LET all == SurvivorPositions(Len(track_ids))
                  IN  tracks = <<CardOfLine(all[4]), CardOfLine(all[5]),
                                 CardOfLine(all[6]), CardOfLine(all[7])>>

\* 10 survivors among 20 lines (every other line is an exact duplicate), offset 3,
\* limit 4: four cards accepted
C3_Witness ==
    /\ pc = "sort"
    /\ Offset = 3
    /\ args.limit_count = <<4>>
    /\ args.skip_if_set = {"A"}
    /\ Len(track_ids) = 20
    /\ Len(SurvivorPositions(Len(track_ids))) = 10
    /\ Len(tracks) = 4
    /\ idx = 14

\* C4: when a limit is configured the loop ends with min(limit, survivors after
\* the offset) accepted cards, never more than the limit.
C4_RunningLimit ==
    (SelectionEnded /\ args.limit_count # <<>> /\ AllCandidatesInStore) =>
        /\ Len(tracks) <= args.limit_count[1]
        /\ Len(tracks) = Min(args.limit_count[1],
                             Max(0, Len(SurvivorPositions(Len(track_ids))) - Offset))

\* the records of the store that belong to an excluded set
TracksInExcludedSets ==
    {t \in DOMAIN track_metadata : DOMAIN track_metadata[t].sets \cap args.skip_if_set # {}}

\* C5: with fuzzy matching on and a non-empty excluded-set list the run does not
\* fail, the index holds the (title, artist) pairs of the records whose sets
\* meet the excluded sets, and no accepted card has such a pair.
C5_FuzzyDedup ==
    (args.fuzzy_track_dupes /\ args.skip_if_set # {} /\ pc \notin {"start", "index", "exit"}) =>
        /\ pc # "crash"
        /\ DOMAIN exclude_track_data =
              {PairOf(track_metadata[t]) : t \in TracksInExcludedSets}
        /\ \A k \in 1..Len(tracks) :
              <<tracks[k].title, tracks[k].artist>> \notin
                  {PairOf(track_metadata[t]) : t \in TracksInExcludedSets}

\* C6: a loop step on a candidate whose record belongs to an excluded set prints
\* the skip and leaves the accepted cards and both counters alone, with fuzzy
\* matching on or off; a step on any other candidate prints no such skip.
C6_ExactDedup ==
    [][(pc = "select" /\ idx < Len(track_ids) /\ IsCandidateLine(track_ids[idx + 1])
        /\ track_ids[idx + 1][1] \in DOMAIN track_metadata)
       => IF ExcludedSetsOf(track_ids[idx + 1]) # {}
          THEN /\ tracks' = tracks
               /\ count' = count
               /\ processed_count' = processed_count
               /\ stdout' = Append(stdout, [msg |-> "skip_exact",
                                            track_id |-> track_ids[idx + 1][1],
                                            sets |-> ExcludedSetsOf(track_ids[idx + 1])])
          ELSE \/ stdout' = stdout
               \/ stdout'[Len(stdout')].msg # "skip_exact"]_vars

\* a run that ended after an exact skip, with fuzzy matching off
C6_Witness ==
    /\ pc = "done"
    /\ ~args.fuzzy_track_dupes
    /\ \E k \in DOMAIN stdout : stdout[k].msg = "skip_exact" /\ stdout[k].track_id = "t1"
    /\ Len(tracks) = 2

\* the run has got past the selection loop
PastSelection == pc \in {"sort", "paginate", "render", "done"}

\* C11 as stated: a run whose list has a candidate line (not blank, not a
\* comment, passing the set filter) that names an identifier absent from the
\* store never gets past the selection loop and never writes a page (runs with
\* a limit of 0 left aside).
C11_AnyMissingRecordFatal ==
    ((PastSelection \/ files # <<>>) /\ args.limit_count # <<0>>)
        => AllCandidatesInStore

\* C11, amended: when the selection loop reaches a candidate line that names
\* an identifier absent from the store, the run ends there with exit code 2 and
\* no page file written; exit code 1 is that of a missing file (or of an
\* uncaught exception); a line that is blank, a comment or outside the set filter
\* never ends the run; every candidate line the loop has consumed without
\* ending names a record of the store.
C11_MissingRecordFatal ==
    /\ exit_code \in {0, 1, 2}
    /\ exit_code = 2 =>
          /\ pc = "exit"
          /\ files = <<>>
          /\ idx >= 1
          /\ IsCandidateLine(track_ids[idx])
          /\ track_ids[idx][1] \notin DOMAIN track_metadata
          /\ stdout # <<>>
          /\ stdout[Len(stdout)].msg = "not_found"
          /\ stdout[Len(stdout)].track_id = track_ids[idx][1]
    /\ exit_code = 1 =>
          \/ pc = "exit" /\ (~list_file.exists \/ ~track_db_file.exists)
          \/ pc = "crash"
    /\ (pc = "select" \/ PastSelection) =>
          \A i \in 1..idx :
              IsCandidateLine(track_ids[i]) => track_ids[i][1] \in DOMAIN track_metadata
    /\ files # <<>> => exit_code = 0

\* two cards are accepted, then the third line names a record the store lacks
C11_Witness ==
    /\ pc = "exit"
    /\ exit_code = 2
    /\ idx = 3
    /\ Len(tracks) = 2
    /\ files = <<>>

\* the messages of the loop that report a dropped candidate
SkipMessages ==
    SelectSeq(stdout, LAMBDA m : m.msg \in {"skip_exact", "skip_fuzzy", "skip_offset",
                                            "skip_limit"})

\* C14: throughout the selection loop every consumed candidate that was not
\* accepted (dropped by exact or fuzzy deduplication or by the offset) has a
\* printed message naming it: the dropped candidates and the skip messages
\* correspond one to one, in order.
C14_SkipsObservable ==
    (pc \in {"select", "sort"}) =>
        LET dropped == SelectSeq([i \in 1..idx |-> i],
                                 LAMBDA i : /\ IsCandidateLine(track_ids[i])
                                            /\ \A k \in 1..Len(tracks) :
                                                  tracks[k] # CardOfLine(i))
        IN  /\ Len(SkipMessages) = Len(dropped)
            /\ \A k \in 1..Len(dropped) :
                  SkipMessages[k].track_id = track_ids[dropped[k]][1]


(***************************************************************************)
(* Strings as sequences of characters: the str methods the two pure        *)
(* functions use.                                                          *)
(***************************************************************************)
\* s.split(" ")
RECURSIVE Split(_)
Split(s) ==
    IF \A i \in DOMAIN s : s[i] # " " THEN <<s>>
    ELSE LET i == CHOOSE j \in DOMAIN s : s[j] = " " /\ \A k \in 1..(j - 1) : s[k] # " "
         IN  <<SubSeq(s, 1, i - 1)>> \o Split(SubSeq(s, i + 1, Len(s)))

\* " ".join(words)
RECURSIVE Join(_)
Join(words) ==
    IF words = <<>> THEN <<>>
    ELSE IF Len(words) = 1 THEN words[1]
    ELSE words[1] \o <<" ">> \o Join(Tail(words))

\* s.strip()
RECURSIVE Strip(_)
Strip(s) ==
    IF s = <<>> THEN s
    ELSE IF s[1] = " " THEN Strip(Tail(s))
    ELSE IF s[Len(s)] = " " THEN Strip(SubSeq(s, 1, Len(s) - 1))
    ELSE s

\* s.replace(old, ""): every occurrence, left to right, without overlap
RECURSIVE Remove(_, _)
Remove(s, old) ==
    IF Len(s) < Len(old) THEN s
    ELSE IF SubSeq(s, 1, Len(old)) = old THEN Remove(SubSeq(s, Len(old) + 1, Len(s)), old)
    ELSE <<s[1]>> \o Remove(Tail(s), old)

\* s with its trailing whitespace removed
RECURSIVE RStrip(_)
RStrip(s) ==
    IF s # <<>> /\ s[Len(s)] = " " THEN RStrip(SubSeq(s, 1, Len(s) - 1)) ELSE s

\* re.sub(r"\s*" + re.escape(text) + "$", "", s): the end-anchored match, with the
\* whitespace before it
RemoveAtEnd(s, text) ==
    IF Len(s) >= Len(text) /\ SubSeq(s, Len(s) - Len(text) + 1, Len(s)) = text
    THEN RStrip(SubSeq(s, 1, Len(s) - Len(text)))
    ELSE s

(***************************************************************************)
(* line_break_text and render_text_svg                                     *)
(***************************************************************************)
\* lines 77-83: the words that go to the first two lines, up to the first word
\* that would bring them to 48 characters; index is that word (1-based), 0 if none
RECURSIVE ThirdLineScan(_, _, _)
ThirdLineScan(words, i, first_two_lines) ==
    IF i > Len(words) THEN [index |-> 0, first_two_lines |-> first_two_lines]
    ELSE IF Len(first_two_lines \o words[i]) >= 48
    THEN [index |-> i, first_two_lines |-> first_two_lines]
    ELSE ThirdLineScan(words, i + 1, first_two_lines \o words[i] \o <<" ">>)

\* the last split point tried by the balancing loop: range(1, len(words) - 1)
LastSplit(words) == Len(words) - 2

\* lines 98-103: the loop over the split points from i on
RECURSIVE BalanceScan(_, _, _)
BalanceScan(words, i, best) ==
    IF i > LastSplit(words) THEN best
    ELSE LET t == Join(SubSeq(words, 1, i))
             b == Join(SubSeq(words, i + 1, Len(words)))
             d == IF Len(t) >= Len(b) THEN Len(t) - Len(b) ELSE Len(b) - Len(t)
         IN  BalanceScan(words, i + 1,
                         IF d < best.diff THEN [top |-> t, bot |-> b, diff |-> d]
                         ELSE best)

RECURSIVE line_break_text(_)
line_break_text(s) ==
    IF Len(s) < 24 THEN <<s>>
    ELSE LET words == Split(s) IN
         IF Len(s) > 48
         THEN LET scan == ThirdLineScan(words, 1, <<>>)
                  rest == IF scan.index = 0 THEN words
                          ELSE SubSeq(words, scan.index, Len(words))
              IN  line_break_text(Strip(scan.first_two_lines)) \o <<Join(rest)>>
         ELSE LET char_count == SeqSum([k \in DOMAIN words |-> Len(words[k])])
                  best == BalanceScan(words, 1,
                                      [top |-> Join(words), bot |-> <<>>,
                                       diff |-> char_count])
              IN  <<best.top, best.bot>>

\* the <text> elements of one artist or title: the offset of each line from
\* y_mm, and the line
render_text_svg(s) ==
    LET lines == line_break_text(s)
        line_height_mm == 6
    IN  [i \in 1..Len(lines) |->
            [dy_mm |-> line_height_mm * i - (line_height_mm * Len(lines)) \div 2,
             text |-> lines[i]]]

\* word lengths of the strings drawn
WordLens == {1, 3, 8, 11, 12, 23, 24, 50}

Letters == <<"a", "b", "c", "d", "e", "f">>

\* the string of words with the given lengths, word k spelled with letter k
StringOf(lens) ==
    Join([k \in DOMAIN lens |->
            [j \in 1..lens[k] |-> Letters[((k - 1) % Len(Letters)) + 1]]])

\* a title or artist is about to be rendered
InitFit ==
    /\ MainIdle
    /\ CleanIdle
    /\ FetchIdle
    /\ \E w \in 1..MaxWords : \E lens \in [1..w -> WordLens] : fit_s = StringOf(lens)
    /\ fit_lines = <<>>

RenderText ==
    /\ fit_lines = <<>>
    /\ fit_lines' = render_text_svg(fit_s)
    /\ UNCHANGED <<fit_s, mainVars, cleanVars, fetchVars>>

NextFit == RenderText

SpecFit == InitFit /\ [][NextFit]_vars

\* the lines line_break_text returned
FitLines == [i \in DOMAIN fit_lines |-> fit_lines[i].text]

FitWords == Split(fit_s)

AbsDiff(a, b) == IF a >= b THEN a - b ELSE b - a

\* the difference in length of the two lines when the first k words go on top
SplitDiff(k) ==
    AbsDiff(Len(Join(SubSeq(FitWords, 1, k))),
            Len(Join(SubSeq(FitWords, k + 1, Len(FitWords)))))

\* C8: for a string of two or more words the lines joined with single spaces are
\* the string, and the lines' words are the string's words (no word is broken).
C8_FitterLossless ==
    (fit_lines # <<>> /\ Len(FitWords) >= 2) =>
        /\ Join(FitLines) = fit_s
        /\ Flatten([i \in DOMAIN FitLines |-> Split(FitLines[i])]) = FitWords

\* C9: one line for a string under 24 characters, three lines for a string of 48
\* characters or more.
C9_LineCountByLength ==
    fit_lines # <<>> =>
        /\ (Len(fit_s) < 24 => Len(FitLines) = 1)
        /\ (Len(fit_s) >= 48 => Len(FitLines) = 3)

\* C10: a string of 24 to 47 characters is split at the earliest word boundary
\* k in 1..w-1 that minimises the difference in length of the two lines; with no
\* boundary (one word) it stays a single line.
C10_TwoLineBalance ==
    (fit_lines # <<>> /\ Len(fit_s) >= 24 /\ Len(fit_s) <= 47) =>
        LET w == Len(FitWords) IN
        IF w < 2 THEN FitLines = <<fit_s>>
        ELSE LET k == CHOOSE j \in 1..(w - 1) :
                        /\ \A m \in 1..(w - 1) : SplitDiff(j) <= SplitDiff(m)
                        /\ \A m \in 1..(j - 1) : SplitDiff(m) > SplitDiff(j)
             IN  FitLines = <<Join(SubSeq(FitWords, 1, k)),
                              Join(SubSeq(FitWords, k + 1, w))>>

(***************************************************************************)
(* clean_string                                                            *)
(***************************************************************************)
\* a str pattern removes every occurrence, a compiled pattern its match at the
\* end of the string; the result is stripped either way
RECURSIVE clean_string(_, _)
clean_string(s, patterns_to_remove) ==
    IF patterns_to_remove = <<>> THEN s
    ELSE LET pattern == Head(patterns_to_remove)
             removed == IF pattern.kind = "str" THEN Remove(s, pattern.text)
                        ELSE RemoveAtEnd(s, pattern.text)
         IN  clean_string(Strip(removed), Tail(patterns_to_remove))

CleanAlphabet == {"a", "b", " "}

CleanStrings == UNION {[1..n -> CleanAlphabet] : n \in 0..MaxStrLen}

\* str patterns and compiled, end-anchored patterns (\s*b$, \s*ab$)
PatternPool ==
    { [kind |-> "str", text |-> <<"a">>],
      [kind |-> "str", text |-> <<"a", "b">>],
      [kind |-> "str", text |-> <<" ", "b">>],
      [kind |-> "re", text |-> <<"b">>],
      [kind |-> "re", text |-> <<"a", "b">>] }

PatternLists == UNION {[1..n -> PatternPool] : n \in 1..MaxPatterns}

\* the entries of track_suffixes (lines 199, 208, 209) that can match a title made
\* of TitleFragments; no other entry of the list occurs in such a title
track_suffixes ==
    << [kind |-> "str", text |-> <<" ", "-", " ", "M", "o", "n", "o", " ", "V", "e", "r", "s", "i", "o", "n">>],
       [kind |-> "str", text |-> <<" ", "-", " ", "M", "o", "n", "o">>],
       [kind |-> "str", text |-> <<"(", "M", "o", "n", "o", ")">>] >>

TitleFragments ==
    { <<" ", "-", " ">>,
      <<"(", "M", "o", "n", "o", ")">>,
      <<"M", "o", "n", "o">>,
      <<" ", "V", "e", "r", "s", "i", "o", "n">> }

\* raw titles: "Song" followed by up to MaxFragments fragments
Titles ==
    {<<"S", "o", "n", "g">> \o Flatten(f) :
        f \in UNION {[1..n -> TitleFragments] : n \in 0..MaxFragments}}

\* a raw string is about to be cleaned
InitClean ==
    /\ MainIdle
    /\ FitIdle
    /\ FetchIdle
    /\ \/ clean_s \in CleanStrings /\ clean_patterns \in PatternLists
       \/ clean_s \in Titles /\ clean_patterns = track_suffixes
    /\ clean_passes = <<>>

\* clean_string applied to the raw string, then to its own result
CleanPass ==
    /\ Len(clean_passes) < 2
    /\ clean_passes' =
          Append(clean_passes,
                 clean_string(IF clean_passes = <<>> THEN clean_s
                              ELSE clean_passes[Len(clean_passes)],
                              clean_patterns))
    /\ UNCHANGED <<clean_s, clean_patterns, mainVars, fitVars, fetchVars>>

NextClean == CleanPass

SpecClean == InitClean /\ [][NextClean]_vars

\* C7: a second pass of clean_string over an already cleaned value changes nothing.
C7_CleanIdempotent ==
    Len(clean_passes) = 2 => clean_passes[2] = clean_passes[1]


(***************************************************************************)
(* fetch_track_metadata.py: the fetch run.  It shares the names of its     *)
(* locals (args, track_ids, idx, ...) with make_qr_cards.main; the store   *)
(* file is track_db_file, written by save_track_db.                        *)
(***************************************************************************)
MaxFetchLines == 3

MaxFailures == 7

\* the entry "(Deluxe)" of album_suffixes; no other entry occurs in the albums of
\* Remote
album_suffixes ==
    << [kind |-> "str", text |-> <<"(", "D", "e", "l", "u", "x", "e", ")">>] >>

track_data_field_sequence ==
    << "release_date", "title", "title_clean", "title_override", "artist",
       "artist_override", "album", "album_clean", "album_override", "album_track",
       "track_url", "album_url", "artist_url", "sets" >>

\* the known fields that are present, in the fixed order; a mapping has no order,
\* so only the keys are kept (the records drawn hold no other key and no null)
reorder_track_data(track_data) ==
    LET known == {track_data_field_sequence[i] : i \in DOMAIN track_data_field_sequence}
    IN  [k \in known \cap DOMAIN track_data |-> track_data[k]]

\* "set" and "set_index" are deleted, the two cleaned fields are recomputed from
\* the raw title and album
clean_track_data(track_data) ==
    LET kept == [k \in DOMAIN track_data \ {"set", "set_index"} |-> track_data[k]]
    IN  reorder_track_data(
            ("title_clean" :> clean_string(track_data.title, track_suffixes))
            @@ ("album_clean" :> clean_string(track_data.album, album_suffixes))
            @@ kept)

\* what the track page of an identifier yields (lines 63-129)
Remote(track_id) ==
    IF track_id = "t1"
    THEN [release_date |-> <<1990, 1, 1>>,
          title |-> <<"S", "o", "n", "g", " ", "-", " ", "M", "o", "n", "o">>,
          artist |-> "P",
          album |-> <<"L", " ", "(", "D", "e", "l", "u", "x", "e", ")">>,
          album_track |-> 1, track_url |-> "u1", album_url |-> "a1",
          artist_url |-> "r1"]
    ELSE [release_date |-> <<1980, 6, 1>>,
          title |-> <<"T", "u", "n", "e">>,
          artist |-> "Q",
          album |-> <<"M">>,
          album_track |-> 2, track_url |-> "u2", album_url |-> "a2",
          artist_url |-> "r2"]

\* the Track that fetch_track_metadata returns, as track._asdict()
TrackAsDict(track_id, set, set_index) ==
    Remote(track_id) @@ [set |-> set, set_index |-> set_index]

backoff_times == <<20, 60, 120, 300, 600>>

\* BackoffSleepTime held at the last entry of the table
BackoffSleepTime_capped(b) ==
    IF b >= Len(backoff_times) THEN backoff_times[Len(backoff_times)]
    ELSE backoff_times[b + 1]

\* sleep_time in backoff_sleep, for the value b of backoff
BackoffSleepTime(b) ==
    IF b >= Len(backoff_times) THEN backoff_times[Len(backoff_times)] + 60 * b
    ELSE backoff_times[b + 1]

\* a record as an earlier fetch run stored it
StoredRecord(track_id, sets) ==
    clean_track_data(Remote(track_id) @@ [sets |-> sets])

\* the store file before the run: absent, holding t1 as fetched, or holding t1
\* with the three hand-written overrides
FetchStores ==
    { [exists |-> FALSE, tracks |-> <<>>],
      [exists |-> TRUE, tracks |-> [t1 |-> StoredRecord("t1", [A |-> 1])]],
      [exists |-> TRUE,
       tracks |-> [t1 |-> [title_override |-> "X", artist_override |-> "Y",
                           album_override |-> "Z"]
                          @@ StoredRecord("t1", [A |-> 1])]] }

\* lines of the track list, split at ";"
FetchLineKinds == { <<"#">>, <<"t1">>, <<"t1", "B">>, <<"t2", "A", "7">> }

FetchLists == UNION {[1..n -> FetchLineKinds] : n \in 0..MaxFetchLines}

\* the command line: a list file or "=", -s, -S, -f
FetchArgs ==
    [list_file : {"list", "="}, set_id : {None, "A"}, set_id_override : {None, "C"},
     force_reload : BOOLEAN]

\* args.list_file == "="
db_reprocess_mode == args.list_file = "="

\* the locals of make_qr_cards.main that a fetch run does not have
mainOnlyVars == <<track_metadata, exclude_track_data, count, processed_count, tracks,
                  table, tables, year_counts, decade_counts, next_track, files>>

InitFetchWith(a, list, db) ==
    /\ FitIdle
    /\ CleanIdle
    /\ args = a
    /\ list_file = list
    /\ track_db_file = db
    /\ db_before = db
    /\ pc = "start"
    /\ track_ids = <<>>
    /\ idx = 0
    /\ stdout = <<>>
    /\ exit_code = 0
    /\ track_db = <<>>
    /\ already_reloaded = {}
    /\ call = <<>>
    /\ backoff = 0
    /\ sleep_time = 0
    /\ track_metadata = <<>>
    /\ exclude_track_data = <<>>
    /\ count = 0
    /\ processed_count = 0
    /\ tracks = <<>>
    /\ table = <<>>
    /\ tables = <<>>
    /\ year_counts = <<>>
    /\ decade_counts = <<>>
    /\ next_track = 0
    /\ files = <<>>

\* the command line is parsed; in reprocess mode no list file is read
InitFetch ==
    \/ \E a \in FetchArgs, l \in FetchLists, db \in FetchStores :
         /\ a.list_file # "="
         /\ InitFetchWith(a, [exists |-> TRUE, lines |-> l], db)
    \/ \E a \in FetchArgs, db \in FetchStores :
         InitFetchWith(a, [exists |-> FALSE, lines |-> <<>>], db)

\* list(track_db["tracks"].keys()): the identifiers, each a line of its own
RECURSIVE KeysList(_)
KeysList(keys) ==
    IF keys = {} THEN <<>>
    ELSE LET k == CHOOSE x \in keys : TRUE
         IN  <<<<k>>>> \o KeysList(keys \ {k})

\* save_track_db: the file holds what the store in memory holds
save_track_db(db) == [exists |-> TRUE, tracks |-> db]

\* lines 334-367: the store is loaded (or started empty), the lines are read
FetchStart ==
    /\ pc = "start"
    /\ LET loaded == IF track_db_file.exists THEN track_db_file.tracks ELSE <<>>
       IN  /\ track_db' = loaded
           /\ IF db_reprocess_mode
              THEN /\ track_ids' = KeysList(DOMAIN loaded)
                   /\ pc' = "line"
                   /\ UNCHANGED <<stdout, exit_code>>
              ELSE IF ~list_file.exists
              THEN /\ stdout' = Append(stdout, Message("no_file", None, {}))
                   /\ exit_code' = 1
                   /\ pc' = "exit"
                   /\ UNCHANGED track_ids
              ELSE /\ track_ids' = list_file.lines
                   /\ pc' = "line"
                   /\ UNCHANGED <<stdout, exit_code>>
    /\ already_reloaded' = {}
    /\ idx' = 0
    /\ UNCHANGED <<args, list_file, track_db_file, call, backoff, sleep_time,
                   db_before>>
    /\ UNCHANGED <<mainOnlyVars, fitVars, cleanVars>>

\* track_set as lines 375-379 resolve it
ResolveSet(tokens, set_id, set_id_override) ==
    IF set_id_override # None THEN set_id_override
    ELSE IF Len(tokens) > 1 THEN tokens[2]
    ELSE set_id

\* sets = existing_track_data.setdefault("sets", {}); sets[track_set] = track_index
AddMembership(rec, track_set, track_index) ==
    [sets |-> (track_set :> track_index) @@ Get(rec, "sets", <<>>)] @@ rec

\* lines 369-405: one iteration of the loop, up to the call of
\* fetch_track_metadata
FetchLine ==
    /\ pc = "line"
    /\ idx < Len(track_ids)
    /\ LET track_id_def == track_ids[idx + 1]
           tokens == track_id_def
           track_id == tokens[1]
           track_set == ResolveSet(tokens, args.set_id, args.set_id_override)
           track_index == IF Len(tokens) > 2 THEN ParseInt(tokens[3]) ELSE idx + 1
       IN
       IF IsBlankOrComment(track_id_def)
       THEN /\ idx' = idx + 1
            /\ UNCHANGED <<pc, exit_code, stdout, track_db, call, backoff, sleep_time>>
       ELSE IF track_set = None /\ ~db_reprocess_mode
       THEN /\ stdout' = Append(stdout, Message("no_set_id", track_id, {}))
            /\ exit_code' = 1
            /\ pc' = "exit"
            /\ UNCHANGED <<idx, track_db, call, backoff, sleep_time>>
       ELSE IF /\ track_id \in DOMAIN track_db
               /\ (~args.force_reload \/ track_id \in already_reloaded)
       THEN /\ track_db' =
                  [track_db EXCEPT ![track_id] =
                      clean_track_data(IF ~db_reprocess_mode
                                       THEN AddMembership(@, track_set, track_index)
                                       ELSE @)]
            /\ stdout' = Append(stdout, Message("already_exists", track_id, {}))
            /\ idx' = idx + 1
            /\ UNCHANGED <<pc, exit_code, call, backoff, sleep_time>>
       ELSE IF db_reprocess_mode
       THEN /\ stdout' = Append(stdout, Message("RuntimeError", track_id, {}))
            /\ exit_code' = 1
            /\ pc' = "crash"
            /\ UNCHANGED <<idx, track_db, call, backoff, sleep_time>>
       ELSE /\ stdout' = Append(stdout, Message("fetching", track_id, {}))
            /\ call' = [track_id |-> track_id, set |-> track_set,
                        set_index |-> track_index]
            /\ backoff' = 0
            /\ sleep_time' = 0
            /\ pc' = "request"
            /\ UNCHANGED <<idx, exit_code, track_db>>
    /\ UNCHANGED <<args, list_file, track_db_file, track_ids, already_reloaded,
                   db_before>>
    /\ UNCHANGED <<mainOnlyVars, fitVars, cleanVars>>

\* fetch_track_metadata, lines 46-61 and backoff_sleep: the request fails (a
\* status of 400 or more, a timeout or a connect error), the call sleeps and
\* goes round its loop again; what it prints is the delay, kept in sleep_time
RequestFails ==
    /\ pc = "request"
    /\ backoff < MaxFailures
    /\ sleep_time' = BackoffSleepTime(backoff)
    /\ backoff' = backoff + 1
    /\ UNCHANGED <<pc, args, list_file, track_db_file, track_ids, idx, stdout,
                   exit_code, track_db, already_reloaded, call, db_before>>
    /\ UNCHANGED <<mainOnlyVars, fitVars, cleanVars>>

\* the three override keys main reads from the existing record
OverrideKeys == {"title_override", "artist_override", "album_override"}

\* fetch_track_metadata, lines 49-57 and 63-134, then main, lines 407-431: the
\* request succeeds; the page lacks an attribute and the track is passed over, or
\* the new record replaces the stored one and the store is saved; the pause
\* that keeps five seconds between fetches changes nothing else
RequestSucceeds ==
    /\ pc = "request"
    /\ \E parsed \in BOOLEAN :
         IF ~parsed
         THEN /\ stdout' = Append(stdout, Message("could_not_fetch", call.track_id, {}))
              /\ idx' = idx + 1
              /\ pc' = "line"
              /\ UNCHANGED <<exit_code, track_db, track_db_file>>
         ELSE LET track == TrackAsDict(call.track_id, call.set, call.set_index)
                  new_track_data ==
                      clean_track_data(track @@ [sets |-> (call.set :> call.set_index)])
              IN
              IF call.track_id \in DOMAIN track_db
              THEN LET existing_track_data == track_db[call.track_id]
                   IN  IF OverrideKeys \subseteq DOMAIN existing_track_data
                       THEN /\ track_db' =
                                  [track_db EXCEPT ![call.track_id] =
                                      [k \in OverrideKeys |-> existing_track_data[k]]
                                      @@ new_track_data]
                            /\ track_db_file' = save_track_db(track_db')
                            /\ idx' = idx + 1
                            /\ pc' = "line"
                            /\ UNCHANGED <<exit_code, stdout>>
                       ELSE /\ stdout' = Append(stdout,
                                                Message("KeyError", call.track_id, {}))
                            /\ exit_code' = 1
                            /\ pc' = "crash"
                            /\ UNCHANGED <<idx, track_db, track_db_file>>
              ELSE /\ track_db' = (call.track_id :> new_track_data) @@ track_db
                   /\ track_db_file' = save_track_db(track_db')
                   /\ idx' = idx + 1
                   /\ pc' = "line"
                   /\ UNCHANGED <<exit_code, stdout>>
    /\ call' = <<>>
    /\ backoff' = 0
    /\ sleep_time' = 0
    /\ UNCHANGED <<args, list_file, track_ids, already_reloaded, db_before>>
    /\ UNCHANGED <<mainOnlyVars, fitVars, cleanVars>>

\* line 433: the loop has run out of lines, the store is saved
FetchFinish ==
    /\ pc = "line"
    /\ idx = Len(track_ids)
    /\ track_db_file' = save_track_db(track_db)
    /\ pc' = "done"
    /\ UNCHANGED <<args, list_file, track_ids, idx, stdout, exit_code, track_db,
                   already_reloaded, call, backoff, sleep_time, db_before>>
    /\ UNCHANGED <<mainOnlyVars, fitVars, cleanVars>>

NextFetch ==
    \/ FetchStart
    \/ FetchLine
    \/ RequestFails
    \/ RequestSucceeds
    \/ FetchFinish

SpecFetch == InitFetch /\ [][NextFetch]_vars


(***************************************************************************)
(* Properties of the fetch run.                                            *)
(***************************************************************************)
LastMessage == IF stdout = <<>> THEN "" ELSE stdout[Len(stdout)].msg

\* the run has ended on a line that resolves to no set id
ConfigError == pc = "exit" /\ exit_code = 1 /\ LastMessage = "no_set_id"

\* C12: when a fetch run outside reprocess mode ends on a line that resolves to
\* no set id, the store file is what it was before the run started.
C12_ConfigErrorNoPartialWrite ==
    (ConfigError /\ args.list_file # "=") => track_db_file = db_before

\* C13 as stated: the backoff delay never exceeds 600 seconds, the largest entry
\* of the backoff table.
C13_BackoffCeiling == sleep_time <= 600

\* C13, amended: a failed request is never fatal and is followed by another
\* attempt; the delay after the k-th consecutive failure is 20, 60, 120, 300, 600
\* seconds for k = 1..5 and 600 + 60 * (k - 1) seconds from the sixth failure on,
\* so it has no ceiling.
C13_BackoffSchedule ==
    /\ backoff = 0 => sleep_time = 0
    /\ backoff > 0 =>
          /\ pc = "request"
          /\ exit_code = 0
          /\ sleep_time = CASE backoff = 1 -> 20
                            [] backoff = 2 -> 60
                            [] backoff = 3 -> 120
                            [] backoff = 4 -> 300
                            [] backoff = 5 -> 600
                            [] OTHER -> 600 + 60 * (backoff - 1)

\* seven requests in a row have failed; the call is still trying
C13_Witness ==
    /\ pc = "request"
    /\ backoff = 7
    /\ sleep_time = 960

\* C15: at every step of a fetch run each record of the store stays in the
\* store and the set ids of its membership mapping stay in that mapping, in
\* memory and in the store file.
C15_RecordsAndMembershipsGrow ==
    [][/\ \A t \in DOMAIN track_db :
             /\ t \in DOMAIN track_db'
             /\ DOMAIN track_db[t].sets \subseteq DOMAIN track_db'[t].sets
       /\ \A t \in DOMAIN track_db_file.tracks :
             /\ t \in DOMAIN track_db_file'.tracks
             /\ DOMAIN track_db_file.tracks[t].sets
                    \subseteq DOMAIN track_db_file'.tracks[t].sets]_vars

\* C16: under force reload (outside reprocess mode) the run does not fail, and
\* every record that was in the store before the run has, for title, artist and
\* album, the override it had before the run, or none if it had none.
C16_ForceReloadKeepsOverrides ==
    (args.force_reload /\ args.list_file # "=" /\ pc # "start") =>
        /\ pc # "crash"
        /\ \A t \in DOMAIN db_before.tracks :
              \A k \in {"title_override", "artist_override", "album_override"} :
                  /\ t \in DOMAIN track_db
                  /\ (k \in DOMAIN track_db[t]) = (k \in DOMAIN db_before.tracks[t])
                  /\ k \in DOMAIN track_db[t] => track_db[t][k] = db_before.tracks[t][k]

\* the fetches the run has started for an identifier
FetchesOf(track_id) ==
    Len(SelectSeq(stdout, LAMBDA m : m.msg = "fetching" /\ m.track_id = track_id))

\* C17: under force reload, in a run where every fetch yields a track, no
\* identifier is fetched twice, and when the run is done the record of each
\* line's identifier holds the membership entry of that line.
C17_FetchedOncePerRun ==
    (/\ args.force_reload
     /\ args.list_file # "="
     /\ \A k \in DOMAIN stdout : stdout[k].msg # "could_not_fetch") =>
        /\ \A t \in {"t1", "t2"} : FetchesOf(t) <= 1
        /\ pc = "done" =>
              \A i \in DOMAIN track_ids :
                 LET line == track_ids[i]
                     set == IF args.set_id_override # None THEN args.set_id_override
                            ELSE IF Len(line) > 1 THEN line[2]
                            ELSE args.set_id
                 IN  line[1] # "#" =>
                        /\ line[1] \in DOMAIN track_db
                        /\ set \in DOMAIN track_db[line[1]].sets
====
